---- MODULE Spec2Model ----
(***************************************************************************)
(* sqlite3pp: RAII wrappers over the native SQLite C library.              *)
(*                                                                         *)
(* The model has three parts, each with its own next-state relation:       *)
(*   Spec       database objects and statement/selecter objects, together  *)
(*              with the native connections and compiled statements;       *)
(*   SpecTxn    transaction objects on one connection;                     *)
(*   SpecBatch  one batch object executing a text of SQL statements.       *)
(* The native library (sqlite3_open_v2, sqlite3_close, sqlite3_prepare_v2, *)
(* sqlite3_step, sqlite3_reset, sqlite3_finalize, sqlite3_exec) is not     *)
(* part of the wrapper's sources; it is modelled by its documented         *)
(* contract.                                                               *)
(***************************************************************************)
EXTENDS Integers, Sequences, FiniteSets

(* ---- native result codes (sqlite3.h) ---- *)
SQLITE_OK == 0
SQLITE_ERROR == 1
SQLITE_BUSY == 5
SQLITE_NOMEM == 7
SQLITE_CANTOPEN == 14
SQLITE_CONSTRAINT == 19
SQLITE_MISUSE == 21
SQLITE_ROW == 100
SQLITE_DONE == 101

(* ---- bounds ---- *)
NumDbs == 2
NumTx == 2
NumDbStmts == 1
NumStmts == 2
MaxHandles == 2
MaxStmtHandles == 2
MaxRows == 1
MaxLen == 3
MaxCode == 101

Dbs == 1..NumDbs
Stmts == 1..NumStmts
Handles == 1..MaxHandles
Handles0 == 0..MaxHandles
SHandles == 1..MaxStmtHandles
SHandles0 == 0..MaxStmtHandles
Txs == 1..NumTx
DbStmts == 1..NumDbStmts
\* the result codes a native call may return
NativeCodes == 0..MaxCode

VARIABLES
    dbLife,     \* database object: "none" (not constructed), "alive", "dead"
    db_,        \* database::db_ of each database object (0 is nullptr)
    conns,      \* native: the connections opened and not yet closed
    stLife,     \* statement object: "none", "alive", "dead"
    stKind,     \* dynamic type of the statement object: "statement" / "selecter"
    stDb,       \* statement::db_, the database object referred to
    stmt_,      \* statement::stmt_ (0 is nullptr)
    nst,        \* native: the compiled statements, by handle
    ub,         \* history: the program has acted on an indeterminate pointer
                \* that was not null (undefined behaviour has happened)
    bh_,        \* database::bh_ of each database object: the handler it holds
    hook,       \* native: the busy handler registered on each connection: the
                \* object whose bh_ is the storage given as its argument
                \* (0: no handler registered) and the handler that was set
    calls,      \* the native calls made by the last operation, in order
    last        \* the last operation: its name, the object it was called on,
                \* the object's handle field before it, and its result (for a
                \* batch: the length of the log and the position before it)

VARIABLES
    txLife,     \* transaction object: "none", "alive", "dead"
    txDb_,      \* transaction::db_ is not null
    fcommit_,   \* transaction::fcommit_
    txBegan,    \* history: the BEGIN of the constructor succeeded
    txIssued,   \* history: the COMMIT / ROLLBACK texts the object has executed
    inTxn       \* native: the transaction object whose BEGIN is open (0: none)

VARIABLES
    callerBuf,  \* the caller's text buffer given to batch::prepare
    data_,      \* batch::data_, the private copy (<<>> with hasData FALSE: None)
    hasData,    \* batch::data_.isSome()
    orig_,      \* batch::orig_, a view [buf, lo, hi]
    state_,     \* batch::state_, a view [buf, lo, hi]
    given,      \* history: the text given to the last batch::prepare
    executed    \* history: the statements the batch has executed on the
                \* connection since the last prepare() or reset(), in order

hvars == <<bh_, hook>>
objvars == <<dbLife, db_, conns, stLife, stKind, stDb, stmt_, nst, ub, hvars>>
txvars == <<txLife, txDb_, fcommit_, txBegan, txIssued, inTxn>>
bvars == <<callerBuf, data_, hasData, orig_, state_, given, executed>>
vars == <<objvars, txvars, bvars, calls, last>>

(* ---- OptError / Result<bool, Error> ---- *)
OptNone == [kind |-> "none", code |-> 0, val |-> FALSE]
OptErr(e) == [kind |-> "err", code |-> e, val |-> FALSE]
ResOk(b) == [kind |-> "ok", code |-> 0, val |-> b]
Void == [kind |-> "void", code |-> 0, val |-> FALSE]

\* sqlite_call() that reports every failure as the generic SQLITE_ERROR
sqlite_call_generic(r) == IF r = SQLITE_OK THEN OptNone ELSE OptErr(SQLITE_ERROR)

sqlite_call(r) == IF r = SQLITE_OK THEN OptNone ELSE OptErr(r)

Call(f, h, rc) == [f |-> f, h |-> h, rc |-> rc]
Last(op, obj, pre, ret) == [op |-> op, obj |-> obj, pre |-> pre, ret |-> ret]

(* ---- native library ---- *)
NoStmt == [conn |-> 0, rows |-> 0, pos |-> 0, run |-> "none", err |-> 0]
IsLive(ns, sh) == sh \in SHandles /\ ns[sh].conn # 0
StmtsOn(ns, h) == {sh \in SHandles : ns[sh].conn = h}

\* sqlite3_close: leaves the connection open and returns SQLITE_BUSY while it
\* has unfinalized prepared statements; a pointer that is no open connection
\* is rejected as misuse.
sqlite3_close(cs, ns, h) ==
    IF h \notin cs THEN [rc |-> SQLITE_MISUSE, conns |-> cs]
    ELSE IF StmtsOn(ns, h) # {} THEN [rc |-> SQLITE_BUSY, conns |-> cs]
    ELSE [rc |-> SQLITE_OK, conns |-> cs \ {h}]

\* sqlite3_open_v2: a handle is returned also when the open fails, except
\* when the connection object itself cannot be allocated.
\* The allocator hands out the lowest address that is free.
Lowest(S) == CHOOSE x \in S : \A y \in S : x <= y

sqlite3_open_v2(cs) ==
    LET free == Handles \ cs
    IN (IF free = {} THEN {}
        ELSE {[rc |-> rc, h |-> Lowest(free)] : rc \in {SQLITE_OK, SQLITE_CANTOPEN}})
       \cup {[rc |-> SQLITE_NOMEM, h |-> 0]}

\* sqlite3_prepare_v2 on connection h of a text of the given kind:
\*   "sql" a statement, "nosql" empty text, white space or a comment,
\*   "bad" a syntax error.
sqlite3_prepare_v2(cs, ns, h, kind) ==
    IF h \notin cs THEN {[rc |-> SQLITE_MISUSE, sh |-> 0, nst |-> ns]}
    ELSE IF kind = "bad" THEN {[rc |-> SQLITE_ERROR, sh |-> 0, nst |-> ns]}
    ELSE IF kind = "nosql" THEN {[rc |-> SQLITE_OK, sh |-> 0, nst |-> ns]}
    ELSE LET free == {x \in SHandles : ns[x].conn = 0}
         IN (IF free = {} THEN {}
             ELSE {[rc |-> SQLITE_OK, sh |-> Lowest(free),
                    nst |-> [ns EXCEPT ![Lowest(free)] =
                                [conn |-> h, rows |-> r, pos |-> 0,
                                 run |-> "idle", err |-> 0]]] : r \in 0..MaxRows})
            \cup {[rc |-> SQLITE_NOMEM, sh |-> 0, nst |-> ns]}

\* sqlite3_reset: rewinds the statement; returns the error of the most recent
\* step if that step failed.  A null statement is a harmless no-op.
sqlite3_reset(ns, sh) ==
    IF ~IsLive(ns, sh) THEN [rc |-> SQLITE_OK, nst |-> ns]
    ELSE [rc |-> IF ns[sh].run = "err" THEN ns[sh].err ELSE SQLITE_OK,
          nst |-> [ns EXCEPT ![sh].pos = 0, ![sh].run = "idle", ![sh].err = 0]]

\* sqlite3_finalize: always destroys the statement; returns the error of the
\* most recent evaluation if it failed.
sqlite3_finalize(ns, sh) ==
    IF ~IsLive(ns, sh) THEN [rc |-> SQLITE_OK, nst |-> ns]
    ELSE [rc |-> IF ns[sh].run = "err" THEN ns[sh].err ELSE SQLITE_OK,
          nst |-> [ns EXCEPT ![sh] = NoStmt]]

\* sqlite3_step: the next row, or DONE after the last one, or an error; a
\* statement that ran to DONE or failed is rewound automatically first.
StepErrors == {SQLITE_BUSY}
sqlite3_step(ns, sh) ==
    IF ~IsLive(ns, sh) THEN {[rc |-> SQLITE_MISUSE, nst |-> ns]}
    ELSE LET p == IF ns[sh].run \in {"done", "err"} THEN 0 ELSE ns[sh].pos
         IN {IF p < ns[sh].rows
               THEN [rc |-> SQLITE_ROW,
                     nst |-> [ns EXCEPT ![sh].pos = p + 1, ![sh].run = "row", ![sh].err = 0]]
               ELSE [rc |-> SQLITE_DONE,
                     nst |-> [ns EXCEPT ![sh].pos = p, ![sh].run = "done", ![sh].err = 0]]}
            \cup {[rc |-> e,
                   nst |-> [ns EXCEPT ![sh].pos = p, ![sh].run = "err", ![sh].err = e]] :
                      e \in StepErrors}

\* sqlite3_busy_handler(db, callback, arg) on the open connection h (and
\* sqlite3_commit_hook, sqlite3_rollback_hook, sqlite3_update_hook,
\* sqlite3_set_authorizer alike): the connection keeps the callback and the
\* argument pointer; a null callback removes the handler.
NoHook == [arg |-> 0, fn |-> "none"]
HandlerFns == {"none", "h"}
sqlite3_busy_handler(hk, h, fn, arg) ==
    [hk EXCEPT ![h] = IF fn = "none" THEN NoHook ELSE [arg |-> arg, fn |-> fn]]
\* the handlers of the connections cs; a closed connection has none
HooksOn(hk, cs) == [h \in Handles |-> IF h \in cs THEN hk[h] ELSE NoHook]

(* ======================================================================= *)
(* database                                                                *)
(* ======================================================================= *)

\* a std::function after std::move: valid, its value unspecified
MovedFrom(fn) == {"none", fn}

\* disconnect() that forgets the handle whatever sqlite3_close returned
disconnect_forgets(cur) ==
    IF cur = 0
      THEN [ret |-> OptNone, db |-> 0, conns |-> conns, calls |-> <<>>]
      ELSE LET c == sqlite3_close(conns, nst, cur)
               r == sqlite_call(c.rc)
           IN [ret |-> r, db |-> 0,
               conns |-> c.conns, calls |-> <<Call("close", cur, c.rc)>>]

\* database::disconnect on a db_ field holding cur: the result, the new
\* field, the native connections and the native calls made.
disconnect(cur) ==
    IF cur = 0
      THEN [ret |-> OptNone, db |-> 0, conns |-> conns, calls |-> <<>>]
      ELSE LET c == sqlite3_close(conns, nst, cur)
               r == sqlite_call(c.rc)
           IN [ret |-> r, db |-> IF r = OptNone THEN 0 ELSE cur,
               conns |-> c.conns, calls |-> <<Call("close", cur, c.rc)>>]

\* database::connect on a db_ field holding cur: disconnect(), its result
\* dropped, then sqlite3_open_v2 writes the field.
connect(d, cur, opname) ==
    LET dis == disconnect(cur)
    IN \E o \in sqlite3_open_v2(dis.conns) :
          /\ db_' = [db_ EXCEPT ![d] = o.h]
          /\ conns' = IF o.h = 0 THEN dis.conns ELSE dis.conns \cup {o.h}
          /\ hook' = HooksOn(hook, dis.conns \ {o.h})
          /\ calls' = dis.calls \o <<Call("open", o.h, o.rc)>>
          /\ last' = Last(opname, d, cur, sqlite_call(o.rc))

\* Objects come to life in the order of their names.
NextDb(d) == dbLife[d] = "none" /\ \A e \in Dbs : e < d => dbLife[e] # "none"
NextStmtObj(s) == stLife[s] = "none" /\ \A e \in Stmts : e < s => stLife[e] # "none"

\* database::database()
database_ctor(d) ==
    /\ NextDb(d)
    /\ dbLife' = [dbLife EXCEPT ![d] = "alive"]
    /\ db_' = [db_ EXCEPT ![d] = 0]
    /\ calls' = <<>>
    /\ last' = Last("database", d, 0, Void)
    /\ bh_' = [bh_ EXCEPT ![d] = "none"]
    /\ UNCHANGED <<conns, stLife, stKind, stDb, stmt_, nst, ub, hook, txvars, bvars>>

\* database::database(dbname, flags, vfs): db_ has no initializer, so the
\* disconnect() inside connect() reads an indeterminate pointer.
database_ctor_open(d) ==
    /\ NextDb(d)
    /\ dbLife' = [dbLife EXCEPT ![d] = "alive"]
    /\ \E garbage \in Handles0 :
          /\ connect(d, garbage, "database(name)")
          /\ ub' = (ub \/ garbage # 0)
    /\ bh_' = [bh_ EXCEPT ![d] = "none"]
    /\ UNCHANGED <<stLife, stKind, stDb, stmt_, nst, txvars, bvars>>

\* database::database(database&& db)
database_move_ctor(d, e) ==
    /\ NextDb(d)
    /\ dbLife[e] = "alive"
    /\ dbLife' = [dbLife EXCEPT ![d] = "alive"]
    /\ db_' = [db_ EXCEPT ![d] = db_[e], ![e] = 0]
    /\ calls' = <<>>
    /\ last' = Last("database(&&)", d, 0, Void)
    /\ \E m \in MovedFrom(bh_[e]) : bh_' = [bh_ EXCEPT ![d] = bh_[e], ![e] = m]
    /\ UNCHANGED <<conns, stLife, stKind, stDb, stmt_, nst, ub, hook, txvars, bvars>>

\* database::operator=(database&& db); d = e is a self-move
database_move_assign(d, e) ==
    /\ dbLife[d] = "alive"
    /\ dbLife[e] = "alive"
    /\ db_' = [[db_ EXCEPT ![d] = db_[e]] EXCEPT ![e] = 0]
    /\ calls' = <<>>
    /\ last' = Last("operator=", d, db_[d], Void)
    /\ \E m \in MovedFrom(bh_[e]) : bh_' = [[bh_ EXCEPT ![d] = bh_[e]] EXCEPT ![e] = m]
    /\ UNCHANGED <<dbLife, conns, stLife, stKind, stDb, stmt_, nst, ub, hook, txvars, bvars>>

\* database::~database()
database_dtor(d) ==
    /\ dbLife[d] = "alive"
    /\ LET dis == disconnect(db_[d])
       IN /\ conns' = dis.conns
          /\ calls' = dis.calls
          /\ last' = Last("~database", d, db_[d], Void)
          /\ hook' = HooksOn(hook, dis.conns)
    /\ dbLife' = [dbLife EXCEPT ![d] = "dead"]
    /\ db_' = [db_ EXCEPT ![d] = 0]
    /\ bh_' = [bh_ EXCEPT ![d] = "none"]
    /\ UNCHANGED <<stLife, stKind, stDb, stmt_, nst, ub, txvars, bvars>>

\* database::connect(dbname, flags, vfs)
database_connect(d) ==
    /\ dbLife[d] = "alive"
    /\ connect(d, db_[d], "connect")
    /\ UNCHANGED <<dbLife, stLife, stKind, stDb, stmt_, nst, ub, bh_, txvars, bvars>>

\* database::disconnect()
database_disconnect(d) ==
    /\ dbLife[d] = "alive"
    /\ LET dis == disconnect(db_[d])
       IN /\ db_' = [db_ EXCEPT ![d] = dis.db]
          /\ conns' = dis.conns
          /\ calls' = dis.calls
          /\ last' = Last("disconnect", d, db_[d], dis.ret)
          /\ hook' = HooksOn(hook, dis.conns)
    /\ UNCHANGED <<dbLife, stLife, stKind, stDb, stmt_, nst, ub, bh_, txvars, bvars>>

\* database::set_busy_handler(h); set_commit_handler, set_rollback_handler,
\* set_update_handler and set_authorize_handler are the same code on ch_,
\* rh_, uh_ and ah_.  The native call dereferences the connection pointer.
set_busy_handler(d, h) ==
    /\ dbLife[d] = "alive"
    /\ bh_' = [bh_ EXCEPT ![d] = h]
    /\ IF db_[d] \in conns
         THEN hook' = sqlite3_busy_handler(hook, db_[d], h, d) /\ UNCHANGED ub
         ELSE UNCHANGED hook /\ ub' = TRUE
    /\ calls' = <<Call("busy_handler", db_[d], SQLITE_OK)>>
    /\ last' = Last("set_busy_handler", d, db_[d], Void)
    /\ UNCHANGED <<dbLife, db_, conns, stLife, stKind, stDb, stmt_, nst, txvars, bvars>>

\* database::is_connected()
is_connected(d) == db_[d] # 0

(* ======================================================================= *)
(* statement, selecter                                                     *)
(* ======================================================================= *)

\* What a statement reads through its reference db_ : the field of the
\* database object, or an indeterminate pointer once that object is gone.
ReadDb(d) == IF dbLife[d] = "alive" THEN {db_[d]} ELSE Handles0

\* statement::finish on a stmt_ field holding cur.
finish(cur, ns) ==
    IF cur = 0
      THEN [ret |-> OptNone, stmt |-> 0, nst |-> ns, calls |-> <<>>]
      ELSE LET rs == sqlite3_reset(ns, cur)
               f == sqlite3_finalize(rs.nst, cur)
           IN [ret |-> sqlite_call(f.rc), stmt |-> 0, nst |-> f.nst,
               calls |-> <<Call("reset", cur, rs.rc), Call("finalize", cur, f.rc)>>]

\* prepare() that compiles over the statement it holds without finish()
prepare_over(cur, h, kind) ==
    {[ret |-> sqlite_call(o.rc), stmt |-> o.sh, nst |-> o.nst,
      calls |-> <<Call("prepare", o.sh, o.rc)>>] :
         o \in sqlite3_prepare_v2(conns, nst, h, kind)}

\* statement::prepare(stmt, left) on a stmt_ field holding cur; h is the
\* connection read through db_, kind the kind of text.  If finish() fails
\* nothing is compiled.
prepare(cur, h, kind) ==
    LET fin == finish(cur, nst)
    IN IF fin.ret # OptNone
         THEN {[ret |-> fin.ret, stmt |-> fin.stmt, nst |-> fin.nst, calls |-> fin.calls]}
         ELSE {[ret |-> sqlite_call(o.rc), stmt |-> o.sh, nst |-> o.nst,
                calls |-> fin.calls \o <<Call("prepare", o.sh, o.rc)>>] :
                   o \in sqlite3_prepare_v2(conns, fin.nst, h, kind)}

\* statement::statement(db, stmt) and selecter::selecter(db, stmt).  With an
\* empty text nothing is prepared; when prepare fails the constructor throws
\* and no object comes to life.
statement_ctor(s, d, k, kind) ==
    /\ NextStmtObj(s)
    /\ dbLife[d] = "alive"
    /\ IF kind = "empty"
         THEN /\ stLife' = [stLife EXCEPT ![s] = "alive"]
              /\ stmt_' = [stmt_ EXCEPT ![s] = 0]
              /\ stKind' = [stKind EXCEPT ![s] = k]
              /\ stDb' = [stDb EXCEPT ![s] = d]
              /\ calls' = <<>>
              /\ last' = Last("statement", s, 0, Void)
              /\ UNCHANGED nst
         ELSE \E p \in prepare(0, db_[d], kind) :
                /\ nst' = p.nst
                /\ calls' = p.calls
                /\ last' = Last("statement", s, 0, p.ret)
                /\ IF p.ret = OptNone
                     THEN /\ stLife' = [stLife EXCEPT ![s] = "alive"]
                          /\ stmt_' = [stmt_ EXCEPT ![s] = p.stmt]
                          /\ stKind' = [stKind EXCEPT ![s] = k]
                          /\ stDb' = [stDb EXCEPT ![s] = d]
                     ELSE UNCHANGED <<stLife, stmt_, stKind, stDb>>
    /\ UNCHANGED <<dbLife, db_, conns, ub, hvars, txvars, bvars>>

\* statement::~statement()
statement_dtor(s) ==
    /\ stLife[s] = "alive"
    /\ LET fin == finish(stmt_[s], nst)
       IN /\ nst' = fin.nst
          /\ calls' = fin.calls
          /\ last' = Last("~statement", s, stmt_[s], Void)
    /\ stLife' = [stLife EXCEPT ![s] = "dead"]
    /\ stmt_' = [stmt_ EXCEPT ![s] = 0]
    /\ stKind' = [stKind EXCEPT ![s] = "statement"]
    /\ stDb' = [stDb EXCEPT ![s] = 1]
    /\ UNCHANGED <<dbLife, db_, conns, ub, hvars, txvars, bvars>>

\* statement::prepare(stmt)
statement_prepare(s, kind) ==
    /\ stLife[s] = "alive"
    /\ \E h \in ReadDb(stDb[s]) : \E p \in prepare(stmt_[s], h, kind) :
          /\ stmt_' = [stmt_ EXCEPT ![s] = p.stmt]
          /\ nst' = p.nst
          /\ calls' = p.calls
          /\ last' = Last("prepare", s, stmt_[s], p.ret)
    /\ ub' = (ub \/ dbLife[stDb[s]] # "alive")
    /\ UNCHANGED <<dbLife, db_, conns, stLife, stKind, stDb, hvars, txvars, bvars>>

\* statement::finish()
statement_finish(s) ==
    /\ stLife[s] = "alive"
    /\ LET fin == finish(stmt_[s], nst)
       IN /\ stmt_' = [stmt_ EXCEPT ![s] = fin.stmt]
          /\ nst' = fin.nst
          /\ calls' = fin.calls
          /\ last' = Last("finish", s, stmt_[s], fin.ret)
    /\ UNCHANGED <<dbLife, db_, conns, stLife, stKind, stDb, ub, hvars, txvars, bvars>>

\* statement::step(): DONE is Ok(false), ROW is Ok(true), the rest an error.
step_result(r) ==
    IF r = SQLITE_DONE THEN ResOk(FALSE)
    ELSE IF r = SQLITE_ROW THEN ResOk(TRUE)
    ELSE OptErr(r)

step(cur, ns) ==
    {[ret |-> step_result(o.rc),
      nst |-> o.nst, calls |-> <<Call("step", cur, o.rc)>>] :
         o \in sqlite3_step(ns, cur)}

statement_step(s) ==
    /\ stLife[s] = "alive"
    /\ \E r \in step(stmt_[s], nst) :
          /\ nst' = r.nst
          /\ calls' = r.calls
          /\ last' = Last("step", s, stmt_[s], r.ret)
    /\ UNCHANGED <<dbLife, db_, conns, stLife, stKind, stDb, stmt_, ub, hvars, txvars, bvars>>

\* statement::reset()
reset(cur, ns) ==
    LET rs == sqlite3_reset(ns, cur)
    IN [ret |-> sqlite_call(rs.rc), nst |-> rs.nst, calls |-> <<Call("reset", cur, rs.rc)>>]

statement_reset(s) ==
    /\ stLife[s] = "alive"
    /\ LET r == reset(stmt_[s], nst)
       IN /\ nst' = r.nst
          /\ calls' = r.calls
          /\ last' = Last("reset", s, stmt_[s], r.ret)
    /\ UNCHANGED <<dbLife, db_, conns, stLife, stKind, stDb, stmt_, ub, hvars, txvars, bvars>>

\* exec() that steps although reset() failed
exec_ignores_reset(cur, ns) ==
    IF cur = 0
      THEN {[ret |-> OptErr(SQLITE_MISUSE), nst |-> ns, calls |-> <<>>]}
      ELSE LET r == reset(cur, ns)
           IN {[ret |-> IF o.rc \in {SQLITE_DONE, SQLITE_ROW, SQLITE_OK}
                          THEN OptNone ELSE OptErr(o.rc),
                nst |-> o.nst,
                calls |-> r.calls \o <<Call("step", cur, o.rc)>>] :
                   o \in sqlite3_step(r.nst, cur)}

\* statement::exec()
exec(cur, ns) ==
    IF cur = 0
      THEN {[ret |-> OptErr(SQLITE_MISUSE), nst |-> ns, calls |-> <<>>]}
      ELSE LET r == reset(cur, ns)
           IN IF r.ret # OptNone
                THEN {r}
                ELSE {[ret |-> IF o.rc \in {SQLITE_DONE, SQLITE_ROW, SQLITE_OK}
                                 THEN OptNone ELSE OptErr(o.rc),
                       nst |-> o.nst,
                       calls |-> r.calls \o <<Call("step", cur, o.rc)>>] :
                          o \in sqlite3_step(r.nst, cur)}

\* selecter::exec() without the test of stmt_
selecter_exec_unchecked(cur, ns) == {reset(cur, ns)}

\* selecter::exec() left to the base class: statement::exec(), which steps
selecter_exec_steps(cur, ns) == exec(cur, ns)

\* selecter::exec()
selecter_exec(cur, ns) ==
    IF cur = 0
      THEN {[ret |-> OptErr(SQLITE_MISUSE), nst |-> ns, calls |-> <<>>]}
      ELSE {reset(cur, ns)}

\* s.exec(), dispatched on the dynamic type
statement_exec(s) ==
    /\ stLife[s] = "alive"
    /\ \E r \in (IF stKind[s] = "selecter" THEN selecter_exec(stmt_[s], nst)
                                           ELSE exec(stmt_[s], nst)) :
          /\ nst' = r.nst
          /\ calls' = r.calls
          /\ last' = Last("exec", s, stmt_[s], r.ret)
    /\ UNCHANGED <<dbLife, db_, conns, stLife, stKind, stDb, stmt_, ub, hvars, txvars, bvars>>

\* selecter::next()
selecter_next(s) ==
    /\ stLife[s] = "alive"
    /\ stKind[s] = "selecter"
    /\ \E r \in step(stmt_[s], nst) :
          /\ nst' = r.nst
          /\ calls' = r.calls
          /\ last' = Last("next", s, stmt_[s],
                          ResOk(IF r.ret.kind = "err" THEN FALSE ELSE r.ret.val))
    /\ UNCHANGED <<dbLife, db_, conns, stLife, stKind, stDb, stmt_, ub, hvars, txvars, bvars>>

(* ======================================================================= *)
(* transaction (on one open connection)                                    *)
(* ======================================================================= *)

\* sqlite3_exec of BEGIN / COMMIT / ROLLBACK on the connection, issued for
\* transaction object t: BEGIN fails inside a transaction (and BEGIN
\* IMMEDIATE may find the database locked), COMMIT and ROLLBACK fail
\* outside one, and a COMMIT that finds the database locked leaves the
\* transaction open.
sqlite3_exec(cur, sql, t, immediate) ==
    IF sql = "BEGIN"
      THEN IF cur # 0 THEN {[rc |-> SQLITE_ERROR, inTxn |-> cur]}
           ELSE {[rc |-> SQLITE_OK, inTxn |-> t]}
                \cup (IF immediate THEN {[rc |-> SQLITE_BUSY, inTxn |-> cur]} ELSE {})
    ELSE IF cur = 0 THEN {[rc |-> SQLITE_ERROR, inTxn |-> cur]}
    ELSE IF sql = "COMMIT"
      THEN {[rc |-> SQLITE_OK, inTxn |-> 0], [rc |-> SQLITE_BUSY, inTxn |-> cur]}
      ELSE {[rc |-> SQLITE_OK, inTxn |-> 0]}

\* database::execute through database::begin / commit / rollback
execute(sql, t, immediate) ==
    {[ret |-> sqlite_call(o.rc), inTxn |-> o.inTxn, calls |-> <<Call(sql, 0, o.rc)>>] :
        o \in sqlite3_exec(inTxn, sql, t, immediate)}

\* transaction::transaction(db, fcommit, immediate)
transaction_ctor(t, fcommit, immediate) ==
    /\ txLife[t] = "none"
    /\ \E r \in execute("BEGIN", t, immediate) :
          /\ inTxn' = r.inTxn
          /\ calls' = r.calls
          /\ last' = Last("transaction", t, 0, r.ret)
          /\ txDb_' = [txDb_ EXCEPT ![t] = (r.ret = OptNone)]
          /\ txBegan' = [txBegan EXCEPT ![t] = (r.ret = OptNone)]
    /\ txLife' = [txLife EXCEPT ![t] = "alive"]
    /\ fcommit_' = [fcommit_ EXCEPT ![t] = fcommit]
    /\ UNCHANGED <<txIssued, objvars, bvars>>

\* ~transaction() without the test of db_
transaction_dtor_unchecked(t) ==
    /\ txLife[t] = "alive"
    /\ txLife' = [txLife EXCEPT ![t] = "dead"]
    /\ LET sql == IF fcommit_[t] THEN "COMMIT" ELSE "ROLLBACK"
       IN \E r \in execute(sql, t, FALSE) :
             /\ inTxn' = r.inTxn
             /\ calls' = r.calls
             /\ last' = Last("~transaction", t, IF txDb_[t] THEN 1 ELSE 0, Void)
             /\ txIssued' = [txIssued EXCEPT ![t] = Append(@, sql)]
    /\ txDb_' = [txDb_ EXCEPT ![t] = FALSE]
    /\ UNCHANGED <<fcommit_, txBegan, objvars, bvars>>

\* transaction::~transaction()
transaction_dtor(t) ==
    /\ txLife[t] = "alive"
    /\ txLife' = [txLife EXCEPT ![t] = "dead"]
    /\ IF ~txDb_[t]
         THEN /\ calls' = <<>>
              /\ last' = Last("~transaction", t, 0, Void)
              /\ UNCHANGED <<inTxn, txIssued>>
         ELSE LET sql == IF fcommit_[t] THEN "COMMIT" ELSE "ROLLBACK"
              IN \E r \in execute(sql, t, FALSE) :
                    /\ inTxn' = r.inTxn
                    /\ calls' = r.calls
                    /\ last' = Last("~transaction", t, 1, Void)
                    /\ txIssued' = [txIssued EXCEPT ![t] = Append(@, sql)]
    /\ txDb_' = [txDb_ EXCEPT ![t] = FALSE]
    /\ UNCHANGED <<fcommit_, txBegan, objvars, bvars>>

\* commit() / rollback() that leave db_ set
transaction_end_keeps(t, sql, opname) ==
    /\ txLife[t] = "alive"
    /\ IF ~txDb_[t]
         THEN /\ calls' = <<>>
              /\ last' = Last(opname, t, 0, OptErr(SQLITE_MISUSE))
              /\ UNCHANGED <<inTxn, txIssued, txDb_>>
         ELSE \E r \in execute(sql, t, FALSE) :
                 /\ inTxn' = r.inTxn
                 /\ calls' = r.calls
                 /\ last' = Last(opname, t, 1, r.ret)
                 /\ txIssued' = [txIssued EXCEPT ![t] = Append(@, sql)]
                 /\ UNCHANGED txDb_
    /\ UNCHANGED <<txLife, fcommit_, txBegan, objvars, bvars>>

\* transaction::commit() and transaction::rollback()
transaction_end(t, sql, opname) ==
    /\ txLife[t] = "alive"
    /\ IF ~txDb_[t]
         THEN /\ calls' = <<>>
              /\ last' = Last(opname, t, 0, OptErr(SQLITE_MISUSE))
              /\ UNCHANGED <<inTxn, txIssued, txDb_>>
         ELSE \E r \in execute(sql, t, FALSE) :
                 /\ inTxn' = r.inTxn
                 /\ calls' = r.calls
                 /\ last' = Last(opname, t, 1, r.ret)
                 /\ txIssued' = [txIssued EXCEPT ![t] = Append(@, sql)]
                 /\ txDb_' = [txDb_ EXCEPT ![t] = FALSE]
    /\ UNCHANGED <<txLife, fcommit_, txBegan, objvars, bvars>>

transaction_commit(t) == transaction_end(t, "COMMIT", "commit")

transaction_rollback(t) == transaction_end(t, "ROLLBACK", "rollback")

(* ======================================================================= *)
(* batch (on one open connection)                                          *)
(* ======================================================================= *)

\* SQL text is a sequence of characters: " " is white space, ";" ends a
\* statement, and the letters are the words of a statement: a statement
\* holding "f" does not compile, one holding "g" (and no "f") compiles and
\* fails when stepped, one made of "a" and "b" only runs to completion.
Chars == {"a", "b", "f", "g", " ", ";"}
Texts == UNION {[1..n -> Chars] : n \in 0..MaxLen}

copy == 0
nocopy == 1

\* statement::bind(idx, text / blob, fcopy): the destructor argument given to
\* sqlite3_bind_text / sqlite3_bind_blob; SQLITE_TRANSIENT makes the library
\* take its own copy of the value.
bind_destructor(fcopy) == IF fcopy = copy THEN "SQLITE_TRANSIENT" ELSE "SQLITE_STATIC"

NullView == [buf |-> "null", lo |-> 1, hi |-> 1]
Buffer(b) == IF b = "caller" THEN callerBuf ELSE IF b = "data" THEN data_ ELSE <<>>
\* the characters a StringView [lo, hi) of a buffer refers to
Content(v) == SubSeq(Buffer(v.buf), v.lo, v.hi - 1)
isEmpty(v) == v.hi = v.lo

\* bmcl::StringView::ltrim: the view without its leading white space
RECURSIVE ltrim(_)
ltrim(v) ==
    IF v.lo < v.hi /\ Buffer(v.buf)[v.lo] = " " THEN ltrim([v EXCEPT !.lo = v.lo + 1]) ELSE v

\* The scanner of sqlite3_prepare_v2 on the view v: it passes white space
\* and empty statements, compiles the first statement and reports where it
\* stopped; with no statement in the text it compiles nothing and succeeds.
RECURSIVE SkipBlank(_, _, _)
SkipBlank(t, i, hi) == IF i < hi /\ t[i] \in {" ", ";"} THEN SkipBlank(t, i + 1, hi) ELSE i

RECURSIVE FindSemi(_, _, _)
FindSemi(t, i, hi) == IF i < hi /\ t[i] # ";" THEN FindSemi(t, i + 1, hi) ELSE i

Words(t) == SelectSeq(t, LAMBDA c : c # " ")

sqlite3_prepare_text(v) ==
    LET t == Buffer(v.buf)
        b == SkipBlank(t, v.lo, v.hi)
        e == FindSemi(t, b, v.hi)
        body == Words(SubSeq(t, b, e - 1))
        tail == IF e < v.hi THEN e + 1 ELSE v.hi
    IN IF b = v.hi THEN [rc |-> SQLITE_OK, stmt |-> <<>>, tail |-> v.hi]
       ELSE IF \E k \in 1..Len(body) : body[k] = "f"
              THEN [rc |-> SQLITE_ERROR, stmt |-> <<>>, tail |-> b]
              ELSE [rc |-> SQLITE_OK, stmt |-> body, tail |-> tail]

\* sqlite3_step of the statement compiled from body (<<>>: no statement)
sqlite3_step_text(body) ==
    IF body = <<>> THEN SQLITE_MISUSE
    ELSE IF \E k \in 1..Len(body) : body[k] = "g" THEN SQLITE_CONSTRAINT
    ELSE SQLITE_DONE

\* execute_next() that resumes one character behind the tail
execute_next_skips(st, ex) ==
    LET s1 == ltrim(st)
        p == sqlite3_prepare_text(s1)
        view == [s1 EXCEPT !.lo = IF p.tail < s1.hi THEN p.tail + 1 ELSE s1.hi]
        rc == sqlite3_step_text(p.stmt)
    IN IF isEmpty(s1)
         THEN [ret |-> ResOk(FALSE), state |-> s1, executed |-> ex, calls |-> <<>>]
       ELSE IF sqlite_call(p.rc) # OptNone
         THEN [ret |-> OptErr(p.rc), state |-> s1, executed |-> ex, calls |-> <<>>]
       ELSE IF rc \notin {SQLITE_DONE, SQLITE_ROW}
         THEN [ret |-> OptErr(rc), state |-> s1, executed |-> ex, calls |-> <<>>]
       ELSE [ret |-> ResOk(~isEmpty(view)), state |-> view,
             executed |-> Append(ex, p.stmt), calls |-> <<>>]

\* execute_next() that keeps the tail also when the step failed
execute_next_advances(st, ex) ==
    LET s1 == ltrim(st)
        p == sqlite3_prepare_text(s1)
        view == [s1 EXCEPT !.lo = p.tail]
        rc == sqlite3_step_text(p.stmt)
    IN IF isEmpty(s1)
         THEN [ret |-> ResOk(FALSE), state |-> s1, executed |-> ex, calls |-> <<>>]
       ELSE IF sqlite_call(p.rc) # OptNone
         THEN [ret |-> OptErr(p.rc), state |-> s1, executed |-> ex,
               calls |-> <<Call("prepare", 0, p.rc)>>]
       ELSE IF rc \notin {SQLITE_DONE, SQLITE_ROW}
         THEN [ret |-> OptErr(rc), state |-> view, executed |-> ex,
               calls |-> <<Call("prepare", 0, p.rc), Call("step", 0, rc)>>]
       ELSE [ret |-> ResOk(~isEmpty(view)), state |-> view,
             executed |-> Append(ex, p.stmt),
             calls |-> <<Call("prepare", 0, p.rc), Call("step", 0, rc)>>]

\* execute_next() without the test for an empty remaining text
execute_next_untested(st, ex) ==
    LET s1 == ltrim(st)
        p == sqlite3_prepare_text(s1)
        view == [s1 EXCEPT !.lo = p.tail]
        rc == sqlite3_step_text(p.stmt)
    IN IF sqlite_call(p.rc) # OptNone
         THEN [ret |-> OptErr(p.rc), state |-> s1, executed |-> ex,
               calls |-> <<Call("prepare", 0, p.rc)>>]
       ELSE IF rc \notin {SQLITE_DONE, SQLITE_ROW}
         THEN [ret |-> OptErr(rc), state |-> s1, executed |-> ex,
               calls |-> <<Call("prepare", 0, p.rc), Call("step", 0, rc)>>]
       ELSE [ret |-> ResOk(~isEmpty(view)), state |-> view,
             executed |-> Append(ex, p.stmt),
             calls |-> <<Call("prepare", 0, p.rc), Call("step", 0, rc)>>]

\* batch::execute_next() from the view st with the log ex.  The local
\* statement is finished by its destructor on the early returns.
execute_next(st, ex) ==
    LET s1 == ltrim(st)
        p == sqlite3_prepare_text(s1)
        view == [s1 EXCEPT !.lo = p.tail]
        rc == sqlite3_step_text(p.stmt)
        fin == IF p.stmt = <<>> THEN <<>>
               ELSE <<Call("reset", 0, IF rc = SQLITE_DONE THEN SQLITE_OK ELSE rc),
                      Call("finalize", 0, SQLITE_OK)>>
    IN IF isEmpty(s1)
         THEN [ret |-> ResOk(FALSE), state |-> s1, executed |-> ex, calls |-> <<>>]
       ELSE IF sqlite_call(p.rc) # OptNone
         THEN [ret |-> OptErr(p.rc), state |-> s1, executed |-> ex,
               calls |-> <<Call("prepare", 0, p.rc)>>]
       ELSE IF rc \notin {SQLITE_DONE, SQLITE_ROW}
         THEN [ret |-> OptErr(rc), state |-> s1, executed |-> ex,
               calls |-> <<Call("prepare", 0, p.rc), Call("step", 0, rc)>> \o fin]
       ELSE [ret |-> ResOk(~isEmpty(view)), state |-> view,
             executed |-> Append(ex, p.stmt),
             calls |-> <<Call("prepare", 0, p.rc), Call("step", 0, rc)>> \o fin]

\* batch::execute_all(): execute_next() until it fails or returns false
RECURSIVE execute_all(_, _, _)
execute_all(st, ex, cs) ==
    LET r == execute_next(st, ex)
    IN IF r.ret.kind = "err"
         THEN [ret |-> r.ret, state |-> r.state, executed |-> r.executed, calls |-> cs \o r.calls]
       ELSE IF r.ret.val
         THEN execute_all(r.state, r.executed, cs \o r.calls)
       ELSE [ret |-> OptNone, state |-> r.state, executed |-> r.executed, calls |-> cs \o r.calls]

\* batch::prepare(stmt, fcopy), stmt being the first n characters of the
\* caller's buffer.  copy_semantic converts to bool as copy -> false,
\* nocopy -> true.
batch_prepare(n, fcopy) ==
    /\ IF n # 0 /\ fcopy # 0
         THEN /\ data_' = SubSeq(callerBuf, 1, n)
              /\ hasData' = TRUE
              /\ orig_' = [buf |-> "data", lo |-> 1, hi |-> n + 1]
         ELSE /\ orig_' = [buf |-> "caller", lo |-> 1, hi |-> n + 1]
              /\ UNCHANGED <<data_, hasData>>
    /\ state_' = orig_'
    /\ given' = SubSeq(callerBuf, 1, n)
    /\ executed' = <<>>
    /\ calls' = <<>>
    /\ last' = Last("batch::prepare", fcopy, n, OptNone)
    /\ UNCHANGED <<callerBuf, objvars, txvars>>

\* reset() that leaves the position where it is
batch_reset_keeps ==
    /\ state_' = state_
    /\ executed' = <<>>
    /\ calls' = <<>>
    /\ last' = Last("batch::reset", Len(executed), state_.lo, Void)
    /\ UNCHANGED <<callerBuf, data_, hasData, orig_, given, objvars, txvars>>

\* batch::reset()
batch_reset ==
    /\ state_' = orig_
    /\ executed' = <<>>
    /\ calls' = <<>>
    /\ last' = Last("batch::reset", Len(executed), state_.lo, Void)
    /\ UNCHANGED <<callerBuf, data_, hasData, orig_, given, objvars, txvars>>

\* b.execute_next()
batch_execute_next ==
    /\ LET r == execute_next(state_, executed)
       IN /\ state_' = r.state
          /\ executed' = r.executed
          /\ calls' = r.calls
          /\ last' = Last("execute_next", Len(executed), state_.lo, r.ret)
    /\ UNCHANGED <<callerBuf, data_, hasData, orig_, given, objvars, txvars>>

\* b.execute_all()
batch_execute_all ==
    /\ LET r == execute_all(state_, executed, <<>>)
       IN /\ state_' = r.state
          /\ executed' = r.executed
          /\ calls' = r.calls
          /\ last' = Last("execute_all", Len(executed), state_.lo, r.ret)
    /\ UNCHANGED <<callerBuf, data_, hasData, orig_, given, objvars, txvars>>

\* batch::state()
state == Content(state_)

(* ======================================================================= *)
(* result codes                                                            *)
(* ======================================================================= *)

\* A forwarding operation, return sqlite_call(sqlite3_xxx(...)), whose
\* native call returned rc.
forward(rc) ==
    /\ calls' = <<Call("native", 0, rc)>>
    /\ last' = Last("forward", 0, 0, sqlite_call(rc))
    /\ UNCHANGED <<objvars, txvars, bvars>>

\* statement::step() whose sqlite3_step returned rc.
step_returns(rc) ==
    /\ calls' = <<Call("step", 0, rc)>>
    /\ last' = Last("step", 0, 0, step_result(rc))
    /\ UNCHANGED <<objvars, txvars, bvars>>

(* ======================================================================= *)
(* specifications                                                          *)
(* ======================================================================= *)

InitObjects ==
    /\ dbLife = [d \in Dbs |-> "none"]
    /\ db_ = [d \in Dbs |-> 0]
    /\ conns = {}
    /\ stLife = [s \in Stmts |-> "none"]
    /\ stKind = [s \in Stmts |-> "statement"]
    /\ stDb = [s \in Stmts |-> 1]
    /\ stmt_ = [s \in Stmts |-> 0]
    /\ nst = [sh \in SHandles |-> NoStmt]
    /\ ub = FALSE
    /\ bh_ = [d \in Dbs |-> "none"]
    /\ hook = [h \in Handles |-> NoHook]
    /\ txLife = [t \in Txs |-> "none"]
    /\ txDb_ = [t \in Txs |-> FALSE]
    /\ fcommit_ = [t \in Txs |-> FALSE]
    /\ txBegan = [t \in Txs |-> FALSE]
    /\ txIssued = [t \in Txs |-> <<>>]
    /\ inTxn = 0
    /\ data_ = <<>>
    /\ hasData = FALSE
    /\ orig_ = NullView
    /\ state_ = NullView
    /\ given = <<>>
    /\ executed = <<>>
    /\ calls = <<>>
    /\ last = Last("init", 0, 0, Void)

Init == InitObjects /\ callerBuf = <<>>

\* batch::batch(db), and the text the caller holds in its buffer
InitBatch == InitObjects /\ callerBuf \in Texts

Next ==
    \/ \E d \in Dbs : database_ctor(d)
    \/ \E d \in Dbs : database_ctor_open(d)
    \/ \E d, e \in Dbs : database_move_ctor(d, e)
    \/ \E d, e \in Dbs : database_move_assign(d, e)
    \/ \E d \in Dbs : database_dtor(d)
    \/ \E d \in Dbs : database_connect(d)
    \/ \E d \in Dbs : database_disconnect(d)
    \/ \E s \in DbStmts, d \in Dbs, kind \in {"empty", "sql"} :
          statement_ctor(s, d, "statement", kind)
    \/ \E s \in DbStmts : statement_dtor(s)
    \/ \E s \in DbStmts : statement_prepare(s, "sql")
    \/ \E s \in DbStmts : statement_finish(s)

Spec == Init /\ [][Next]_vars

\* statements and selecters at work on the connection of one database object
NextStmt ==
    \/ database_ctor(1)
    \/ database_connect(1)
    \/ database_dtor(1)
    \/ \E s \in Stmts, k \in {"statement", "selecter"},
          kind \in {"empty", "sql", "nosql", "bad"} : statement_ctor(s, 1, k, kind)
    \/ \E s \in Stmts : statement_dtor(s)
    \/ \E s \in Stmts, kind \in {"sql", "nosql", "bad"} : statement_prepare(s, kind)
    \/ \E s \in Stmts : statement_finish(s)
    \/ \E s \in Stmts : statement_step(s)
    \/ \E s \in Stmts : statement_reset(s)
    \/ \E s \in Stmts : statement_exec(s)
    \/ \E s \in Stmts : selecter_next(s)

SpecStmt == Init /\ [][NextStmt]_vars

NextTxn ==
    \/ \E t \in Txs, fc, imm \in BOOLEAN : transaction_ctor(t, fc, imm)
    \/ \E t \in Txs : transaction_dtor(t)
    \/ \E t \in Txs : transaction_commit(t)
    \/ \E t \in Txs : transaction_rollback(t)

SpecTxn == Init /\ [][NextTxn]_vars

NextBatch ==
    \/ \E n \in {0, Len(callerBuf)}, fcopy \in {copy, nocopy} : batch_prepare(n, fcopy)
    \/ batch_reset
    \/ batch_execute_next
    \/ batch_execute_all

SpecBatch == InitBatch /\ [][NextBatch]_vars

\* database objects, their connections and their handlers
NextHandler ==
    \/ \E d \in Dbs : database_ctor(d)
    \/ \E d, e \in Dbs : database_move_ctor(d, e)
    \/ \E d, e \in Dbs : database_move_assign(d, e)
    \/ \E d \in Dbs : database_dtor(d)
    \/ \E d \in Dbs : database_connect(d)
    \/ \E d \in Dbs : database_disconnect(d)
    \/ \E d \in Dbs, h \in HandlerFns : set_busy_handler(d, h)

SpecHandler == Init /\ [][NextHandler]_vars

\* the translation of every native result code
NextCodes ==
    \/ \E rc \in NativeCodes : forward(rc)
    \/ \E rc \in NativeCodes : step_returns(rc)

SpecCodes == Init /\ [][NextCodes]_vars

(* ======================================================================= *)
(* properties                                                              *)
(* ======================================================================= *)

Owners(h) == {d \in Dbs : dbLife[d] = "alive" /\ db_[d] = h}
Holders(sh) == {s \in Stmts : stLife[s] = "alive" /\ stmt_[s] = sh}

\* C1: in every state (reached without undefined behaviour) every native
\* connection that is open is held by exactly one live database object.
C1_OneOwner ==
    ~ub => \A h \in conns : Cardinality(Owners(h)) = 1

\* C2: every compiled statement that has not been finalized is held by
\* exactly one live statement object; prepare() on an object that holds a
\* compiled statement finalizes it before it compiles, and the destructor
\* finalizes the compiled statement the object holds.
C2_OneHolder ==
    /\ \A sh \in SHandles : nst[sh].conn # 0 => Cardinality(Holders(sh)) = 1
    /\ (last.op \in {"prepare", "~statement"} /\ last.pre # 0) =>
          /\ Len(calls) >= 2
          /\ calls[2].f = "finalize" /\ calls[2].h = last.pre
          /\ \A i \in 1..Len(calls) : calls[i].f = "prepare" => i > 2

C2_Reprepared ==
    /\ last.op = "prepare" /\ last.pre # 0
    /\ stmt_[last.obj] # 0
    /\ \E s \in Stmts : s # last.obj /\ stmt_[s] # 0

\* C3: a transaction object whose BEGIN succeeded executes exactly one COMMIT
\* or ROLLBACK in its life: never more than one while it lives, exactly one
\* once it is destroyed; an explicit commit() or rollback() executes it, and
\* a destructor that finds none executed executes COMMIT with fcommit and
\* ROLLBACK without.
C3_OneEnd ==
    \A t \in Txs : txBegan[t] =>
        /\ Len(txIssued[t]) <= 1
        /\ txLife[t] = "dead" => Len(txIssued[t]) = 1
        /\ (last.obj = t /\ last.op = "commit" /\ last.ret # OptErr(SQLITE_MISUSE)) =>
              txIssued[t] = <<"COMMIT">> /\ Len(calls) = 1 /\ calls[1].f = "COMMIT"
        /\ (last.obj = t /\ last.op = "rollback" /\ last.ret # OptErr(SQLITE_MISUSE)) =>
              txIssued[t] = <<"ROLLBACK">> /\ Len(calls) = 1 /\ calls[1].f = "ROLLBACK"
        /\ (last.obj = t /\ last.op = "~transaction" /\ calls # <<>>) =>
              /\ Len(calls) = 1
              /\ calls[1].f = (IF fcommit_[t] THEN "COMMIT" ELSE "ROLLBACK")
              /\ txIssued[t] = <<calls[1].f>>

C3_DtorCommits ==
    /\ last.op = "~transaction" /\ txBegan[last.obj]
    /\ calls # <<>> /\ calls[1].f = "COMMIT"
    /\ \E t \in Txs : t # last.obj /\ txLife[t] = "dead" /\ txBegan[t]
                      /\ txIssued[t] = <<"ROLLBACK">>

\* The statements of a text: the words between the semicolons, white space
\* and empty statements left out.
RECURSIVE Split(_, _, _)
Split(t, cur, acc) ==
    IF t = <<>> THEN (IF cur = <<>> THEN acc ELSE Append(acc, cur))
    ELSE IF Head(t) = ";" THEN Split(Tail(t), <<>>, IF cur = <<>> THEN acc ELSE Append(acc, cur))
    ELSE IF Head(t) = " " THEN Split(Tail(t), cur, acc)
    ELSE Split(Tail(t), Append(cur, Head(t)), acc)

StatementsOf(t) == Split(t, <<>>, <<>>)

\* the remaining text before the last batch operation
Before == SubSeq(Buffer(state_.buf), last.pre, state_.hi - 1)
\* what the last batch operation appended to the log
Ran == SubSeq(executed, last.obj + 1, Len(executed))

\* C4: the statements executed since the last prepare() / reset(), followed
\* by the statements of the remaining text, are the statements of the whole
\* text, in order; and an execute_next() that returns without error has
\* executed the first statement of the text that remained (if there was
\* one) and left the statements after it.
C4_InOrder ==
    /\ executed \o StatementsOf(state) = StatementsOf(Content(orig_))
    /\ (last.op = "execute_next" /\ last.ret.kind = "ok") =>
          IF StatementsOf(Before) = <<>>
            THEN Ran = <<>> /\ StatementsOf(state) = <<>>
            ELSE /\ Ran = <<Head(StatementsOf(Before))>>
                 /\ StatementsOf(state) = Tail(StatementsOf(Before))

C4_TwoInOrder ==
    /\ last.op = "execute_next" /\ last.ret.kind = "ok"
    /\ Len(executed) = 2 /\ executed[1] # executed[2]
    /\ Ran = <<executed[2]>>

\* the error a statement fails with, 0 if it runs
FailCode(st) ==
    IF \E k \in 1..Len(st) : st[k] = "f" THEN SQLITE_ERROR
    ELSE IF \E k \in 1..Len(st) : st[k] = "g" THEN SQLITE_CONSTRAINT
    ELSE SQLITE_OK

FirstFailing(L) ==
    IF \E k \in 1..Len(L) : FailCode(L[k]) # SQLITE_OK
      THEN Lowest({k \in 1..Len(L) : FailCode(L[k]) # SQLITE_OK})
      ELSE 0

\* C5: execute_all() executes the statements of the remaining text up to the
\* first one that fails and returns that statement's error; it returns no
\* error exactly when every statement of the remaining text was executed.
C5_StopsAtFirstFailure ==
    last.op = "execute_all" =>
        LET L == StatementsOf(Before)
            k == FirstFailing(L)
        IN IF k = 0
             THEN last.ret = OptNone /\ Ran = L
             ELSE last.ret = OptErr(FailCode(L[k])) /\ Ran = SubSeq(L, 1, k - 1)

C7_MisuseWithoutStatement ==
    (last.op = "exec" /\ last.pre = 0) =>
        last.ret = OptErr(SQLITE_MISUSE) /\ calls = <<>>

C7_SelecterWithoutStatement ==
    /\ last.op = "exec" /\ last.pre = 0
    /\ stKind[last.obj] = "selecter"
    /\ conns # {}

\* C8: once the destructor of a connected database object has returned, the
\* connection it held is closed.
C8_ClosedAfterDtor ==
    (~ub /\ last.op = "~database" /\ last.pre # 0) => last.pre \notin conns

\* C9: connect() on a connected database object closes the connection it
\* holds before it opens the new one.
C9_ClosesBeforeOpen ==
    (~ub /\ last.op = "connect" /\ last.pre # 0) =>
        /\ Len(calls) = 2
        /\ calls[1] = Call("close", last.pre, SQLITE_OK)
        /\ calls[2].f = "open"
        /\ \A h \in conns : h # db_[last.obj] => Owners(h) # {}

\* C10: disconnect() on an object that is not connected returns no error and
\* makes no native call; on a connected object it closes the handle, and
\* either the close succeeds, it returns no error and the object is no
\* longer connected, or the close fails, it returns that code and the
\* object keeps the handle.
C10_DisconnectOutcome ==
    last.op = "disconnect" =>
        IF last.pre = 0
          THEN last.ret = OptNone /\ calls = <<>> /\ ~is_connected(last.obj)
          ELSE /\ Len(calls) = 1
               /\ calls[1].f = "close" /\ calls[1].h = last.pre
               /\ IF calls[1].rc = SQLITE_OK
                    THEN last.ret = OptNone /\ ~is_connected(last.obj)
                    ELSE /\ last.ret = OptErr(calls[1].rc)
                         /\ is_connected(last.obj) /\ db_[last.obj] = last.pre

C10_CloseRefused ==
    /\ last.op = "disconnect" /\ last.pre # 0
    /\ last.ret = OptErr(SQLITE_BUSY)
    /\ db_[last.obj] = last.pre

\* C11: batch::prepare with a non-empty text reads its copy_semantic as the
\* names say and as statement::bind does: with copy the batch holds a private
\* copy of the text and its views refer to that copy, with nocopy its views
\* refer to the caller's buffer and nothing is copied.
C11_CopyAsNamed ==
    (last.op = "batch::prepare" /\ last.pre # 0) =>
        /\ last.obj = copy =>
              /\ hasData /\ data_ = SubSeq(callerBuf, 1, last.pre)
              /\ orig_.buf = "data" /\ state_.buf = "data"
        /\ last.obj = nocopy => orig_.buf = "caller" /\ state_.buf = "caller"
        /\ (orig_.buf = "data") <=> (bind_destructor(last.obj) = "SQLITE_TRANSIENT")

\* C12: when exec() on a selecter has returned no error, the next() that
\* follows it on that selecter delivers the first row of the result set: it
\* returns true with the cursor on row 1 when the result set has a row and
\* the step does not fail, and it reports the end only of an empty result set.
C12_ExecConsumesNoRow ==
    [][(/\ last.op = "exec" /\ stKind[last.obj] = "selecter" /\ last.ret = OptNone
        /\ last'.op = "next" /\ last'.obj = last.obj)
       => LET sh == last.pre
              rc == calls'[1].rc
          IN /\ calls' = <<Call("step", sh, rc)>>
             /\ rc = SQLITE_ROW => nst'[sh].pos = 1 /\ last'.ret = ResOk(TRUE)
             /\ rc = SQLITE_DONE => nst[sh].rows = 0 /\ last'.ret = ResOk(FALSE)
             /\ nst[sh].rows > 0 => rc \in {SQLITE_ROW} \cup StepErrors]_vars

C12_ExecOnResultSet ==
    /\ last.op = "exec" /\ stKind[last.obj] = "selecter" /\ last.ret = OptNone
    /\ calls = <<Call("reset", last.pre, SQLITE_OK)>>
    /\ stmt_[last.obj] = last.pre
    /\ nst[last.pre].rows > 0 /\ nst[last.pre].pos = 0

\* C13: a forwarding operation returns no error exactly when the native call
\* returned SQLITE_OK and otherwise an Error carrying the native code; step()
\* returns Ok(false) for SQLITE_DONE, Ok(true) for SQLITE_ROW and Err(code)
\* for every other native code.
C13_CodesKept ==
    /\ last.op = "forward" =>
          /\ (last.ret.kind = "none") <=> (calls[1].rc = SQLITE_OK)
          /\ calls[1].rc # SQLITE_OK =>
                last.ret.kind = "err" /\ last.ret.code = calls[1].rc
    /\ last.op = "step" =>
          /\ calls[1].rc = SQLITE_DONE => last.ret.kind = "ok" /\ ~last.ret.val
          /\ calls[1].rc = SQLITE_ROW => last.ret.kind = "ok" /\ last.ret.val
          /\ calls[1].rc \notin {SQLITE_DONE, SQLITE_ROW} =>
                last.ret.kind = "err" /\ last.ret.code = calls[1].rc

C13_BusyForwarded ==
    /\ last.op = "forward" /\ calls[1].rc = SQLITE_BUSY
    /\ last.ret = OptErr(SQLITE_BUSY)

\* C14: a live transaction object that is not active, because its BEGIN
\* failed or because commit() or rollback() was already called on it,
\* executes no SQL: commit() and rollback() on it return MISUSE and make no
\* native call, its destructor makes none either, and the transaction open on
\* the connection is left as it is.
C14_InactiveIssuesNothing ==
    [][\A t \in Txs :
          (/\ txLife[t] = "alive"
           /\ ~txBegan[t] \/ txIssued[t] # <<>>
           /\ last'.obj = t
           /\ last'.op \in {"commit", "rollback", "~transaction"})
          => /\ calls' = <<>>
             /\ inTxn' = inTxn
             /\ txIssued'[t] = txIssued[t]
             /\ last'.op \in {"commit", "rollback"} => last'.ret = OptErr(SQLITE_MISUSE)]_vars

C14_SecondTransactionCommit ==
    /\ last.op = "commit" /\ ~txBegan[last.obj]
    /\ last.ret = OptErr(SQLITE_MISUSE) /\ calls = <<>>
    /\ inTxn \in Txs /\ inTxn # last.obj /\ txLife[inTxn] = "alive"

\* C15: once a transaction object whose BEGIN succeeded is destroyed, the
\* transaction it began is no longer open on the connection.
C15_EndedAfterDtor ==
    \A t \in Txs : (txLife[t] = "dead" /\ txBegan[t]) => inTxn # t

\* C16: in every state (reached without undefined behaviour) the handler
\* storage registered on an open connection is the bh_ of the live database
\* object that holds that connection, and it holds the handler that was set.
C16_HandlerStorageOwned ==
    ~ub => \A h \in conns : hook[h].arg # 0 =>
              /\ dbLife[hook[h].arg] = "alive"
              /\ db_[hook[h].arg] = h
              /\ bh_[hook[h].arg] = hook[h].fn

\* a text without its leading white space
RECURSIVE TrimLeft(_)
TrimLeft(t) == IF t # <<>> /\ Head(t) = " " THEN TrimLeft(Tail(t)) ELSE t

AllBlank(t) == \A i \in 1..Len(t) : t[i] = " "

\* C17: when execute_next() returns an error, state() is the remaining text
\* from before the call without its leading white space, and no statement
\* was added to those executed.
C17_ErrorKeepsPosition ==
    (last.op = "execute_next" /\ last.ret.kind = "err") =>
        state = TrimLeft(Before) /\ Ran = <<>>

C17_FailedAfterBlank ==
    /\ last.op = "execute_next" /\ last.ret = OptErr(SQLITE_CONSTRAINT)
    /\ Head(Before) = " " /\ state = Tail(Before)
    /\ calls[2] = Call("step", 0, SQLITE_CONSTRAINT)

\* C18: reset() makes state() the whole text given to the last prepare(),
\* and an execute_all() that follows it executes the statements of that
\* text from the first one, up to the first that fails.
C18_ResetRestores ==
    /\ [](last.op = "batch::reset" => state = given)
    /\ [][(last.op = "batch::reset" /\ last'.op = "execute_all") =>
            LET L == StatementsOf(given)
                k == FirstFailing(L)
            IN executed' = (IF k = 0 THEN L ELSE SubSeq(L, 1, k - 1))]_vars

C18_ResetAfterProgress ==
    /\ last.op = "batch::reset" /\ last.obj >= 1 /\ last.pre > 1
    /\ state = given /\ Len(StatementsOf(given)) >= 2

\* C19: an execute_next() that returns without error returns true only when
\* a statement is left in the remaining text, and false exactly when the
\* remaining text is empty or white space only.
C19_TrueIffMore ==
    (last.op = "execute_next" /\ last.ret.kind = "ok") =>
        /\ last.ret.val => StatementsOf(state) # <<>>
        /\ ~last.ret.val <=> AllBlank(state)

\* C20: an execute_next() that returns true has left a remaining text
\* strictly shorter than before; execute_all() prepares at most as many
\* statements as the remaining text has characters, and on an empty or
\* white-space-only text it returns no error and makes no native call.
C20_Terminates ==
    /\ (last.op = "execute_next" /\ last.ret = ResOk(TRUE)) =>
          Len(state) < Len(Before)
    /\ last.op = "execute_all" =>
          /\ Len(SelectSeq(calls, LAMBDA c : c.f = "prepare")) <= Len(Before)
          /\ AllBlank(Before) => last.ret = OptNone /\ calls = <<>>

C20_LoopedTwice ==
    /\ last.op = "execute_all" /\ last.ret = OptNone
    /\ Len(Ran) = 2 /\ state = <<>>
    /\ Len(SelectSeq(calls, LAMBDA c : c.f = "prepare")) = 2

====
